---- MODULE Spec2Model ----
(***************************************************************************)
(* A model of src/rng.js: the class RNG, a PCG-XSH-RR generator written    *)
(* with JavaScript BigInts (state, multiplier, increment) and Numbers      *)
(* (everything call() returns and everything derived from it).             *)
(*                                                                         *)
(* A BigInt is modelled as the sequence of its binary digits, least        *)
(* significant first, without high zero digits (<<>> is 0n): BigInts are   *)
(* unbounded, so nothing is reduced unless the code reduces it.            *)
(* A Number is modelled exactly as a sign and a magnitude counted in units *)
(* of 2^-32: every Number the code computes from integer arguments of the  *)
(* sizes used here is such a dyadic rational of fewer than 53 significant  *)
(* bits, so the double arithmetic of the code is exact on them.            *)
(***************************************************************************)
EXTENDS Integers, Sequences, FiniteSets, TLC

VARIABLES state, multiplier, increment, pc, op, pre, ret, arg, err, ctor, steps

vars == <<state, multiplier, increment, pc, op, pre, ret, arg, err, ctor, steps>>

-----------------------------------------------------------------------------
(* Bounds of the model.                                                    *)

\* Operations started in one behaviour.
MaxSteps == 2
\* Integer arguments of randint and rand range over -MaxArg..MaxArg.
MaxArg == 2
\* Arrays given to randperm, permute and choose have at most MaxLen elements.
MaxLen == 3
\* Array elements are drawn from 0..MaxElem.
MaxElem == 2
\* choose is given at most MaxWeights weights, each in 0..MaxWeight.
MaxWeights == 2
MaxWeight == 1

-----------------------------------------------------------------------------
(* BigInt: binary digits, least significant first.                         *)

Max2(a, b) == IF a >= b THEN a ELSE b

RECURSIVE Norm(_)
Norm(b) ==
  IF Len(b) = 0 THEN <<>>
  ELSE IF b[Len(b)] = 0 THEN Norm(SubSeq(b, 1, Len(b) - 1))
  ELSE b

BitAt(b, i) == IF i >= 1 /\ i <= Len(b) THEN b[i] ELSE 0

\* x >> n
Shr(b, n) == IF n >= Len(b) THEN <<>> ELSE SubSeq(b, n + 1, Len(b))

\* x << n
Shl(b, n) ==
  IF Len(b) = 0 THEN <<>>
  ELSE [i \in 1..(Len(b) + n) |-> IF i <= n THEN 0 ELSE b[i - n]]

\* x ^ y, x | y, x & y on non-negative BigInts
Xor(a, b) == Norm([i \in 1..Max2(Len(a), Len(b)) |-> (BitAt(a, i) + BitAt(b, i)) % 2])
Or(a, b) == Norm([i \in 1..Max2(Len(a), Len(b)) |-> Max2(BitAt(a, i), BitAt(b, i))])
And(a, b) == Norm([i \in 1..Max2(Len(a), Len(b)) |-> BitAt(a, i) * BitAt(b, i)])

\* The arithmetic works on limbs of LimbBits binary digits.
LimbBits == 12
Radix == 2 ^ LimbBits

RECURSIVE WinVal(_, _, _)
WinVal(b, lo, n) ==
  IF n = 0 THEN 0 ELSE BitAt(b, lo + 1) + 2 * WinVal(b, lo + 1, n - 1)

ToLimbs(b) ==
  [j \in 1..((Len(b) + LimbBits - 1) \div LimbBits) |-> WinVal(b, (j - 1) * LimbBits, LimbBits)]

LimbAt(l, j) == IF j >= 1 /\ j <= Len(l) THEN l[j] ELSE 0

RECURSIVE Carry(_, _, _)
Carry(l, i, c) ==
  IF i > Len(l)
  THEN IF c = 0 THEN <<>> ELSE <<c % Radix>> \o Carry(l, i, c \div Radix)
  ELSE <<(l[i] + c) % Radix>> \o Carry(l, i + 1, (l[i] + c) \div Radix)

FromLimbs(l) ==
  Norm([i \in 1..(Len(l) * LimbBits) |->
          (l[((i - 1) \div LimbBits) + 1] \div (2 ^ ((i - 1) % LimbBits))) % 2])

\* A small natural number as a BigInt, and back.
RECURSIVE FromNat(_)
FromNat(n) == IF n = 0 THEN <<>> ELSE <<n % 2>> \o FromNat(n \div 2)

ToNat(b) == WinVal(b, 0, Len(b))

\* x + y
AddBig(a, b) ==
  LET la == ToLimbs(a)
      lb == ToLimbs(b)
  IN  FromLimbs(Carry([j \in 1..Max2(Len(la), Len(lb)) |-> LimbAt(la, j) + LimbAt(lb, j)], 1, 0))

RECURSIVE ColSum(_, _, _, _)
ColSum(la, lb, k, i) ==
  IF i > Len(la) \/ i > k THEN 0
  ELSE la[i] * LimbAt(lb, k + 1 - i) + ColSum(la, lb, k, i + 1)

\* x * y
MulBig(a, b) ==
  LET la == ToLimbs(a)
      lb == ToLimbs(b)
  IN  IF Len(la) = 0 \/ Len(lb) = 0 THEN <<>>
      ELSE FromLimbs(Carry([k \in 1..(Len(la) + Len(lb) - 1) |-> ColSum(la, lb, k, 1)], 1, 0))

\* x < y
RECURSIVE LessFrom(_, _, _)
LessFrom(a, b, i) ==
  IF i = 0 THEN FALSE
  ELSE IF a[i] # b[i] THEN a[i] < b[i]
  ELSE LessFrom(a, b, i - 1)

LessBig(a, b) ==
  IF Len(a) # Len(b) THEN Len(a) < Len(b) ELSE LessFrom(a, b, Len(a))

RECURSIVE Borrow(_, _, _, _)
Borrow(la, lb, i, c) ==
  IF i > Len(la) THEN <<>>
  ELSE LET t == la[i] - LimbAt(lb, i) - c
       IN  IF t < 0 THEN <<t + Radix>> \o Borrow(la, lb, i + 1, 1)
           ELSE <<t>> \o Borrow(la, lb, i + 1, 0)

\* x - y for x >= y
SubBig(a, b) == FromLimbs(Borrow(ToLimbs(a), ToLimbs(b), 1, 0))

\* A BigInt from its hexadecimal digits, most significant first.
RECURSIVE FromHex(_)
FromHex(h) ==
  IF Len(h) = 0 THEN <<>>
  ELSE Norm([i \in 1..4 |-> (h[Len(h)] \div (2 ^ (i - 1))) % 2]
            \o FromHex(SubSeq(h, 1, Len(h) - 1)))

-----------------------------------------------------------------------------
(* The constructor's defaults (line 11).                                   *)

\* 0x4d595df4d0f33173n
DefaultState == FromHex(<<4, 13, 5, 9, 5, 13, 15, 4, 13, 0, 15, 3, 3, 1, 7, 3>>)
\* 6364136223846793005n = 0x5851f42d4c957f2dn
DefaultMultiplier == FromHex(<<5, 8, 5, 1, 15, 4, 2, 13, 4, 12, 9, 5, 7, 15, 2, 13>>)
\* 1442695040888963407n = 0x14057b7ef767814fn
DefaultIncrement == FromHex(<<1, 4, 0, 5, 7, 11, 7, 14, 15, 7, 6, 7, 8, 1, 4, 15>>)

-----------------------------------------------------------------------------
(* #pad_or_truncate (lines 19-26) and BigInt("0b...") (line 34).           *)

\* (x).toString(2): the binary digits, most significant first, "0" for 0n.
ToString2(x) ==
  IF Len(x) = 0 THEN <<0>> ELSE [i \in 1..Len(x) |-> x[Len(x) + 1 - i]]

\* A slip: binary.slice(0, bits), the first digits instead of the last.
SliceLast_first(s, bits) == SubSeq(s, 1, bits)

\* binary.slice(-bits)
SliceLast(s, bits) == SubSeq(s, Len(s) - bits + 1, Len(s))

\* The digits after "0b" of the string #pad_or_truncate returns.
pad_or_truncate(x, bits) ==
  LET binary == ToString2(x)
  IN  IF Len(binary) <= bits
      THEN [i \in 1..(bits - Len(binary)) |-> 0] \o binary
      ELSE SliceLast(binary, bits)

\* BigInt("0b" + digits)
ParseBinary(s) == Norm([i \in 1..Len(s) |-> s[Len(s) + 1 - i]])

-----------------------------------------------------------------------------
(* Numbers: sign and magnitude in units of 2^-32.                          *)

Undefined == [t |-> "undefined"]
NaN == [t |-> "NaN"]
Num(neg, mag) == [t |-> "number", neg |-> neg, mag |-> mag]

FracBits == 32

\* The Number of an integer of the model.
NumInt(i) == Num(i < 0, Shl(FromNat(IF i < 0 THEN -i ELSE i), FracBits))

\* Number(x) of a non-negative BigInt below 2^53 (line 37)
NumberOf(x) == Num(FALSE, Shl(x, FracBits))

\* 4294967295n
Mask32 == [i \in 1..32 |-> 1]

\* -r & 31n for a BigInt r >= 0
NegAnd31(r) == FromNat((0 - ToNat(r)) % 32)

\* A slip: the rotation goes to the left.
rotr32_left(x, r) == And(Or(Shl(x, ToNat(r)), Shr(x, ToNat(NegAnd31(r)))), Mask32)

\* #rotr32 (lines 28-30)
rotr32(x, r) == And(Or(Shr(x, ToNat(r)), Shl(x, ToNat(NegAnd31(r)))), Mask32)

\* call() (lines 32-38) from state s: the Number returned and the state left.
CallFrom(s, m, c) ==
  LET x == s
      count == Shr(x, 59)
      y == And(Shr(Xor(x, Shr(x, 18)), 27), Mask32)
  IN  [ret   |-> NumberOf(rotr32(y, count)),
       state |-> ParseBinary(pad_or_truncate(AddBig(MulBig(s, m), c), 64))]

\* x % d for the non-negative integer Number x and an integer d of the model:
\* NaN for d = 0, else the remainder by |d| (the sign of a JavaScript
\* remainder is the dividend's).
RECURSIVE RemFrom(_, _, _, _)
RemFrom(b, i, d, acc) ==
  IF i = 0 THEN acc ELSE RemFrom(b, i - 1, d, (2 * acc + b[i]) % d)

NumRem(x, d) ==
  IF x.t # "number" \/ d = 0 THEN NaN
  ELSE LET n == Shr(x.mag, FracBits)
       IN  NumInt(RemFrom(n, Len(n), IF d < 0 THEN -d ELSE d, 0))

\* x + y
NumAdd(x, y) ==
  IF x.t # "number" \/ y.t # "number" THEN NaN
  ELSE IF x.neg = y.neg THEN Num(x.neg, AddBig(x.mag, y.mag))
  ELSE IF x.mag = y.mag THEN Num(FALSE, <<>>)
  ELSE IF LessBig(x.mag, y.mag) THEN Num(y.neg, SubBig(y.mag, x.mag))
  ELSE Num(x.neg, SubBig(x.mag, y.mag))

\* x * (2**-32) for an integer Number x
NumScale(x) == IF x.t # "number" THEN NaN ELSE Num(x.neg, Shr(x.mag, FracBits))

\* x * k for an integer k of the model
NumMulInt(x, k) ==
  IF x.t # "number" THEN NaN
  ELSE Num(x.neg # (k < 0), MulBig(x.mag, FromNat(IF k < 0 THEN -k ELSE k)))

\* if (v): an argument that was given and is not zero.
Truthy(given, v) == given /\ v # 0

-----------------------------------------------------------------------------
(* randint (lines 47-55) and rand (lines 60-68).  Every branch calls       *)
(* call() once; u is the Number that call returned.                        *)

\* A slip: the first branch takes the remainder by max, not by max - min.
randintOf_modmax(u, nargs, min, max) ==
  IF Truthy(nargs >= 2, max) THEN NumAdd(NumRem(u, max), NumInt(min))
  ELSE IF Truthy(nargs >= 1, min)
  THEN IF min > 0 THEN NumRem(u, min) ELSE NumAdd(NumRem(u, 0 - min), NumInt(min))
  ELSE u

randintOf(u, nargs, min, max) ==
  IF Truthy(nargs >= 2, max) THEN NumAdd(NumRem(u, max - min), NumInt(min))
  ELSE IF Truthy(nargs >= 1, min)
  THEN IF min > 0 THEN NumRem(u, min) ELSE NumAdd(NumRem(u, 0 - min), NumInt(min))
  ELSE u

randOf(u, nargs, min, max) ==
  IF Truthy(nargs >= 2, max) THEN NumAdd(NumMulInt(NumScale(u), max - min), NumInt(min))
  ELSE IF Truthy(nargs >= 1, min) THEN NumMulInt(NumScale(u), min)
  ELSE NumScale(u)

randintFrom(s, m, c, nargs, min, max) ==
  LET r == CallFrom(s, m, c)
  IN  [ret |-> randintOf(r.ret, nargs, min, max), state |-> r.state]

randFrom(s, m, c, nargs, min, max) ==
  LET r == CallFrom(s, m, c)
  IN  [ret |-> randOf(r.ret, nargs, min, max), state |-> r.state]

-----------------------------------------------------------------------------
(* randperm (lines 74-87) and permute (lines 90-98).                       *)

\* The index a Number returned by randint denotes.
IndexOf(x) == ToNat(Shr(x.mag, FracBits))

\* array.splice(i, 1): the array left (i counted from 0).
SpliceOut(a, i) == SubSeq(a, 1, i) \o SubSeq(a, i + 2, Len(a))

\* Array.from(Array(n), (_, i) => i)
Iota(n) == [i \in 1..n |-> NumInt(i - 1)]

\* array.shift() of line 85: undefined on an empty array.
ShiftOf(a) == IF Len(a) = 0 THEN Undefined ELSE a[1]

RECURSIVE randpermLoop(_, _, _, _, _)
randpermLoop(oldArray, newArray, s, m, c) ==
  IF Len(oldArray) > 1
  THEN LET r == randintFrom(s, m, c, 1, Len(oldArray), 0)
           i == IndexOf(r.ret)
       IN  randpermLoop(SpliceOut(oldArray, i), Append(newArray, oldArray[i + 1]), r.state, m, c)
  ELSE [ret |-> Append(newArray, ShiftOf(oldArray)), state |-> s]

\* randperm of a number n (isNum) or of an array.
randpermFrom(s, m, c, isNum, n, array) ==
  randpermLoop(IF isNum THEN Iota(n) ELSE array, <<>>, s, m, c)

RECURSIVE permuteTake(_, _, _, _, _)
permuteTake(array, oldArray, s, m, c) ==
  IF Len(array) > 1
  THEN LET r == randintFrom(s, m, c, 1, Len(array), 0)
           i == IndexOf(r.ret)
       IN  permuteTake(SpliceOut(array, i), Append(oldArray, array[i + 1]), r.state, m, c)
  ELSE [array |-> array, oldArray |-> oldArray, state |-> s]

\* A slip: array.unshift(oldArray.shift()), which puts the elements back in
\* the reverse order.
RECURSIVE permutePutBack_shift(_, _)
permutePutBack_shift(array, oldArray) ==
  IF Len(oldArray) > 0
  THEN permutePutBack_shift(<<oldArray[1]>> \o array, Tail(oldArray))
  ELSE array

RECURSIVE permutePutBack(_, _)
permutePutBack(array, oldArray) ==
  IF Len(oldArray) > 0
  THEN permutePutBack(<<oldArray[Len(oldArray)]>> \o array,
                      SubSeq(oldArray, 1, Len(oldArray) - 1))
  ELSE array

\* permute: the caller's array afterwards and the state left.
permuteFrom(s, m, c, array) ==
  LET t == permuteTake(array, <<>>, s, m, c)
  IN  [array |-> permutePutBack(t.array, t.oldArray), state |-> t.state]

-----------------------------------------------------------------------------
(* choose (lines 101-113).                                                 *)

RECURSIVE SumSeq(_)
SumSeq(w) == IF Len(w) = 0 THEN 0 ELSE w[1] + SumSeq(Tail(w))

\* A slip: only too few items are refused.
LengthsDiffer_fewer(probabilities, hasItems, items) ==
  hasItems /\ Len(probabilities) > Len(items)

\* The guard of lines 103-107.
LengthsDiffer(probabilities, hasItems, items) ==
  hasItems /\ Len(probabilities) # Len(items)

\* The outcome of choose from state s: an error name ("none" when it
\* returns), the value returned and the state left.
\*   line 106 throws a RangeError when items is given with another length;
\*   line 108 reduces without an initial value: a TypeError on an empty array;
\*   line 110 draws rand(normalizer);
\*   line 112 maps a callback over probabilities that reads p, a name the
\*   module never declares: its first invocation throws a ReferenceError.
chooseFrom(s, m, c, probabilities, hasItems, items) ==
  IF LengthsDiffer(probabilities, hasItems, items)
  THEN [err |-> "RangeError", ret |-> Undefined, state |-> s]
  ELSE IF Len(probabilities) = 0
  THEN [err |-> "TypeError", ret |-> Undefined, state |-> s]
  ELSE LET normalizer == SumSeq(probabilities)
           number == randFrom(s, m, c, 1, normalizer, 0)
       IN  [err |-> "ReferenceError", ret |-> Undefined, state |-> number.state]

-----------------------------------------------------------------------------
(* The generator.                                                          *)

\* 2^64 - 1
AllOnes64 == [i \in 1..64 |-> 1]

\* The constructor arguments tried (line 11): the defaults; the defaults
\* with state 0; and the largest 64-bit state, multiplier and (odd) increment.
CtorArgs ==
  {[state |-> DefaultState, multiplier |-> DefaultMultiplier, increment |-> DefaultIncrement],
   [state |-> <<>>, multiplier |-> DefaultMultiplier, increment |-> DefaultIncrement],
   [state |-> AllOnes64, multiplier |-> AllOnes64, increment |-> AllOnes64]}

\* 2^64
TwoTo64 == [i \in 1..65 |-> IF i = 65 THEN 1 ELSE 0]

\* The seeds given to init: 0, 2^64 - 1, and the two seeds around the one
\* at which seed + increment reaches 2^64.
Seeds ==
  {<<>>, AllOnes64, SubBig(TwoTo64, increment),
   SubBig(SubBig(TwoTo64, increment), <<1>>)}

Ints == (0 - MaxArg)..MaxArg

\* Arrays of Numbers: the algorithms never look at an element, so the
\* elements are listed in non-decreasing order (repeated ones included).
Arrays ==
  UNION {{[i \in 1..n |-> NumInt(f[i])] :
            f \in {g \in [1..n -> 0..MaxElem] : \A i \in 1..(n - 1) : g[i] <= g[i + 1]}} :
         n \in 0..MaxLen}

\* Weight arrays, in every order, and the item arrays given with them.
Weights == UNION {[1..n -> 0..MaxWeight] : n \in 0..MaxWeights}
ItemArrays == {Iota(n) : n \in 0..(MaxWeights + 1)}

Init ==
  /\ \E a \in CtorArgs :
       /\ state = a.state
       /\ multiplier = a.multiplier
       /\ increment = a.increment
  /\ pc = "idle"
  /\ op = [name |-> "new"]
  /\ pre = state
  /\ ret = Undefined
  /\ arg = <<>>
  /\ err = "none"
  /\ ctor = [multiplier |-> multiplier, increment |-> increment]
  /\ steps = 0

\* What every operation records: the operation, the state it started from.
Begin(o) ==
  /\ pc = "idle"
  /\ steps < MaxSteps
  /\ op' = o
  /\ pre' = state
  /\ steps' = steps + 1
  /\ UNCHANGED <<multiplier, increment, ctor>>

\* The operation has returned (or thrown) and its caller takes over: the
\* call's arguments and result are gone, the generator stays as it is.
Return ==
  /\ pc = "returned"
  /\ pc' = "idle"
  /\ op' = [name |-> "new"]
  /\ pre' = state
  /\ ret' = Undefined
  /\ arg' = <<>>
  /\ err' = "none"
  /\ UNCHANGED <<state, multiplier, increment, ctor, steps>>

Call ==
  /\ Begin([name |-> "call"])
  /\ LET r == CallFrom(state, multiplier, increment)
     IN  /\ state' = r.state
         /\ ret' = r.ret
  /\ arg' = <<>>
  /\ err' = "none"
  /\ pc' = "returned"

\* init, line 41: the state is written, the call of line 42 is still to come.
InitSeed ==
  \E seed \in Seeds :
    /\ Begin([name |-> "init", seed |-> seed])
    /\ state' = AddBig(seed, increment)
    /\ ret' = Undefined
    /\ arg' = <<>>
    /\ err' = "none"
    /\ pc' = "init"

\* init, line 42: the call whose value is discarded.
InitCall ==
  /\ pc = "init"
  /\ state' = CallFrom(state, multiplier, increment).state
  /\ pc' = "returned"
  /\ UNCHANGED <<multiplier, increment, op, pre, ret, arg, err, ctor, steps>>

Randint ==
  LET r == CallFrom(state, multiplier, increment)
  IN  \E nargs \in 0..2, min \in Ints, max \in Ints :
        /\ nargs < 2 => max = 0
        /\ nargs < 1 => min = 0
        /\ Begin([name |-> "randint", nargs |-> nargs, min |-> min, max |-> max])
        /\ state' = r.state
        /\ ret' = randintOf(r.ret, nargs, min, max)
        /\ arg' = <<>>
        /\ err' = "none"
        /\ pc' = "returned"

Rand ==
  LET r == CallFrom(state, multiplier, increment)
  IN  \E nargs \in 0..2, min \in Ints, max \in Ints :
        /\ nargs < 2 => max = 0
        /\ nargs < 1 => min = 0
        /\ Begin([name |-> "rand", nargs |-> nargs, min |-> min, max |-> max])
        /\ state' = r.state
        /\ ret' = randOf(r.ret, nargs, min, max)
        /\ arg' = <<>>
        /\ err' = "none"
        /\ pc' = "returned"

RandpermNumber ==
  \E n \in 0..MaxLen :
    LET r == randpermFrom(state, multiplier, increment, TRUE, n, <<>>)
    IN  /\ Begin([name |-> "randperm", isNum |-> TRUE, n |-> n, array |-> Iota(n)])
        /\ state' = r.state
        /\ ret' = [t |-> "array", elems |-> r.ret]
        /\ arg' = <<>>
        /\ err' = "none"
        /\ pc' = "returned"

RandpermArray ==
  \E array \in Arrays :
    LET r == randpermFrom(state, multiplier, increment, FALSE, 0, array)
    IN  /\ Begin([name |-> "randperm", isNum |-> FALSE, n |-> Len(array), array |-> array])
        /\ state' = r.state
        /\ ret' = [t |-> "array", elems |-> r.ret]
        /\ arg' = array
        /\ err' = "none"
        /\ pc' = "returned"

Permute ==
  \E array \in Arrays :
    LET r == permuteFrom(state, multiplier, increment, array)
    IN  /\ Begin([name |-> "permute", array |-> array])
        /\ state' = r.state
        /\ ret' = Undefined
        /\ arg' = r.array
        /\ err' = "none"
        /\ pc' = "returned"

Choose ==
  \E probabilities \in Weights, hasItems \in BOOLEAN, items \in ItemArrays :
    LET r == chooseFrom(state, multiplier, increment, probabilities, hasItems, items)
    IN  /\ ~hasItems => items = <<>>
        /\ Begin([name |-> "choose", probabilities |-> probabilities,
                  hasItems |-> hasItems, items |-> items])
        /\ state' = r.state
        /\ ret' = r.ret
        /\ arg' = <<>>
        /\ err' = r.err
        /\ pc' = "returned"

Next ==
  \/ Call
  \/ InitSeed
  \/ InitCall
  \/ Randint
  \/ Rand
  \/ RandpermNumber
  \/ RandpermArray
  \/ Permute
  \/ Choose
  \/ Return

Spec == Init /\ [][Next]_vars

-----------------------------------------------------------------------------
(* What the claims are stated with.                                        *)

Returned(name) == pc = "returned" /\ op.name = name

\* x mod 2^w of a BigInt: its w low binary digits.
ModPow2(x, w) == Norm(SubSeq(x, 1, IF Len(x) < w THEN Len(x) ELSE w))

\* (x * m + c) mod 2^64
Advance(x, m, c) == ModPow2(AddBig(MulBig(x, m), c), 64)

RECURSIVE AdvanceBy(_, _, _, _)
AdvanceBy(x, m, c, k) == IF k = 0 THEN x ELSE AdvanceBy(Advance(x, m, c), m, c, k - 1)

\* Rotation to the right of the 32 binary digits of y by k places: digit i
\* of the result is digit (i + k) mod 32 of y.
RotateRight32(y, k) == Norm([i \in 1..32 |-> BitAt(y, ((i - 1 + k) % 32) + 1)])

\* ((x xor (x >> 18)) >> 27) mod 2^32
XorShift(x) == ModPow2(Shr(Xor(x, Shr(x, 18)), 27), 32)

\* The raw output of the step taken from the state the operation started in.
RawOutput == CallFrom(pre, multiplier, increment).ret

\* u mod d, d > 0, for the integer Number u, limb by limb.
RECURSIVE ModLimbs(_, _, _, _)
ModLimbs(l, i, d, acc) ==
  IF i = 0 THEN acc ELSE ModLimbs(l, i - 1, d, (acc * (Radix % d) + l[i]) % d)

ModOf(u, d) ==
  LET l == ToLimbs(Shr(u.mag, FracBits)) IN ModLimbs(l, Len(l), d, 0)

\* x < y on Numbers (-0 and 0 are equal).
NumLess(x, y) ==
  IF x.neg /\ ~y.neg THEN ~(x.mag = <<>> /\ y.mag = <<>>)
  ELSE IF ~x.neg /\ y.neg THEN FALSE
  ELSE IF ~x.neg THEN LessBig(x.mag, y.mag)
  ELSE LessBig(y.mag, x.mag)

\* x = y on Numbers
NumEqual(x, y) == ~NumLess(x, y) /\ ~NumLess(y, x)

\* min <= v < max
InRange(v, min, max) ==
  /\ v.t = "number"
  /\ ~NumLess(v, NumInt(min))
  /\ NumLess(v, NumInt(max))

\* A non-negative integer Number below 2^32.
IsU32(v) ==
  /\ v.t = "number"
  /\ ~v.neg
  /\ Len(v.mag) <= FracBits + 32
  /\ \A i \in 1..FracBits : BitAt(v.mag, i) = 0

\* The number of times e occurs in the array a.
Count(a, e) == Cardinality({i \in 1..Len(a) : a[i] = e})

SameElements(a, b) ==
  /\ Len(a) = Len(b)
  /\ \A i \in 1..Len(a) : Count(a, a[i]) = Count(b, a[i])

-----------------------------------------------------------------------------
(* C1: one call() from a state x in [0, 2^64) returns the rotation to the  *)
(* right, by x >> 59 places over 32 bits, of y = ((x xor (x >> 18)) >> 27) *)
(* mod 2^32, computed from the state before the call; the value returned   *)
(* lies in [0, 2^32); and the state afterwards is (x * m + c) mod 2^64.    *)
C1_CallStep ==
  (Returned("call") /\ Len(pre) <= 64) =>
    /\ ret = NumberOf(RotateRight32(XorShift(pre), ToNat(Shr(pre, 59))))
    /\ IsU32(ret)
    /\ state = Advance(pre, multiplier, increment)

\* A call that rotated by a count other than 0 and whose product had to be
\* cut to 64 bits.
C1_Witness ==
  /\ Returned("call")
  /\ Len(pre) <= 64
  /\ ToNat(Shr(pre, 59)) > 0
  /\ Len(AddBig(MulBig(pre, multiplier), increment)) > 64
  /\ ret # NumberOf(XorShift(pre))

(* C2: for integers min < max, min = 0 and max = 0 included,               *)
(* randint(min, max) returns the integer u mod (max - min) + min, which    *)
(* lies in [min, max), where u is the raw output of the one step it takes. *)
C2_RandintRange ==
  (Returned("randint") /\ op.nargs = 2 /\ op.min < op.max) =>
    /\ err = "none"
    /\ ret = NumInt(ModOf(RawOutput, op.max - op.min) + op.min)
    /\ InRange(ret, op.min, op.max)
    /\ state = Advance(pre, multiplier, increment)

\* randint(min, 0) with min below -1 has returned a value other than min.
C2_Witness ==
  /\ Returned("randint")
  /\ op.nargs = 2
  /\ op.max = 0
  /\ op.min < -1
  /\ ret # NumInt(op.min)

(* C3: for integers min < max, min = 0 and max = 0 included,               *)
(* rand(min, max) returns base * (max - min) + min, which lies in          *)
(* [min, max), where base = u * 2^-32 and u is the raw output of the one   *)
(* step it takes.                                                          *)
C3_RandRange ==
  (Returned("rand") /\ op.nargs = 2 /\ op.min < op.max) =>
    /\ err = "none"
    /\ ret.t = "number"
    /\ NumEqual(ret, NumAdd(NumMulInt(NumScale(RawOutput), op.max - op.min), NumInt(op.min)))
    /\ InRange(ret, op.min, op.max)
    /\ state = Advance(pre, multiplier, increment)

\* r < w for the Number r and the integer w
BelowInt(r, w) == NumLess(r, NumInt(w))

\* The smallest index (from 1) whose cumulative weight exceeds r; 0 if none.
RECURSIVE FirstAbove(_, _, _, _)
FirstAbove(w, r, i, acc) ==
  IF i > Len(w) THEN 0
  ELSE IF BelowInt(r, acc + w[i]) THEN i
  ELSE FirstAbove(w, r, i + 1, acc + w[i])

\* What the claim has choose return from the state it started in.
Chosen ==
  LET r == NumMulInt(NumScale(RawOutput), SumSeq(op.probabilities))
      i == FirstAbove(op.probabilities, r, 1, 0)
  IN  IF i = 0 THEN Undefined
      ELSE IF op.hasItems THEN op.items[i]
      ELSE NumInt(i - 1)

(* C4: for non-empty, non-negative weights of non-zero sum, choose with    *)
(* no items or as many items as weights completes normally, draws          *)
(* r = rand(total) with one step and returns the item (or the index) at    *)
(* the smallest index whose cumulative weight exceeds r: an element of     *)
(* items, or an index below the number of weights.                         *)
C4_ChooseResult ==
  (/\ Returned("choose")
   /\ Len(op.probabilities) > 0
   /\ SumSeq(op.probabilities) > 0
   /\ ~LengthsDiffer(op.probabilities, op.hasItems, op.items)) =>
    /\ err = "none"
    /\ state = Advance(pre, multiplier, increment)
    /\ ret = Chosen
    /\ ret # Undefined

(* C5: randperm of an input of length n >= 0 (an array, or n for           *)
(* [0, ..., n-1]) returns n elements, the same ones as often as the input  *)
(* holds them: nothing for n = 0, the input itself for n = 1.              *)
C5_RandpermPermutes ==
  Returned("randperm") =>
    /\ err = "none"
    /\ ret.t = "array"
    /\ Len(ret.elems) = op.n
    /\ SameElements(ret.elems, op.array)
    /\ op.n = 1 => ret.elems = op.array

(* C6: for an array of length n >= 1 and a state s, permute leaves the     *)
(* array equal, element by element, to what randperm returns for it from   *)
(* s, and both leave the generator in s advanced by n - 1 steps.           *)
C6_PermuteAsRandperm ==
  /\ (Returned("permute") /\ Len(op.array) >= 1) =>
       LET r == randpermFrom(pre, multiplier, increment, FALSE, 0, op.array)
       IN  /\ arg = r.ret
           /\ state = r.state
           /\ state = AdvanceBy(pre, multiplier, increment, Len(op.array) - 1)
  /\ (Returned("randperm") /\ op.n >= 1) =>
       state = AdvanceBy(pre, multiplier, increment, op.n - 1)

\* permute has reordered an array of three elements.
C6_Witness ==
  /\ Returned("permute")
  /\ Len(op.array) = 3
  /\ arg # op.array
  /\ state # pre

(* C7: randint and rand signal an error, and return no value, when called  *)
(* with the single bound 0 or with both bounds and max <= min.             *)
C7_InvalidRange ==
  (/\ pc = "returned"
   /\ op.name \in {"randint", "rand"}
   /\ \/ op.nargs = 1 /\ op.min = 0
      \/ op.nargs = 2 /\ op.max <= op.min) =>
    /\ err # "none"
    /\ ret = Undefined

(* C8: choose called with items of another length than the weights fails   *)
(* with the length-mismatch error at that call, returns no value and       *)
(* leaves the state as it was: no step is taken.                           *)
C8_LengthMismatch ==
  (/\ Returned("choose")
   /\ op.hasItems
   /\ Len(op.items) # Len(op.probabilities)) =>
    /\ err = "RangeError"
    /\ ret = Undefined
    /\ state = pre

\* choose([w1, w2], items) with more items than weights has failed.
C8_Witness ==
  /\ Returned("choose")
  /\ op.hasItems
  /\ Len(op.probabilities) = 2
  /\ SumSeq(op.probabilities) > 0
  /\ Len(op.items) > Len(op.probabilities)
  /\ err = "RangeError"

(* C9: after init(seed), seed in [0, 2^64), the state is                   *)
(* (((seed + increment) mod 2^64) * multiplier + increment) mod 2^64,      *)
(* whatever the state was before, also when seed + increment >= 2^64.      *)
C9_InitState ==
  Returned("init") =>
    state = Advance(ModPow2(AddBig(op.seed, increment), 64), multiplier, increment)

\* init has returned for a seed with seed + increment >= 2^64.
C9_Witness ==
  /\ Returned("init")
  /\ Len(op.seed) <= 64
  /\ Len(AddBig(op.seed, increment)) > 64

(* C10: in every state, the one between the two lines of init included,    *)
(* state is in [0, 2^64) and multiplier and increment are the values given *)
(* at construction.                                                        *)
C10_FixedWidth ==
  /\ Len(state) <= 64
  /\ multiplier = ctor.multiplier
  /\ increment = ctor.increment

====
